---- MODULE Spec2Model ----
(***************************************************************************)
(* mediaflow-proxy: the streaming relay endpoints of routes/proxy.py       *)
(* (proxy_stream_endpoint, segment_endpoint) and the VixCloud URL          *)
(* extractor of extractors/vixcloud.py, as state machines.                 *)
(*                                                                         *)
(* Spec         one relay operation per relay id, from the inbound request *)
(*              to the end of the response.                                *)
(* SpecExtract  one extractor instance serving extract() calls.            *)
(***************************************************************************)
EXTENDS Integers, Sequences, FiniteSets, TLC

VARIABLES relay, ext

vars == <<relay, ext>>

(***************************************************************************)
(* Bounds                                                                  *)
(***************************************************************************)
\* Longest upstream body, in chunks as aiter_raw() would yield them.
MaxChunks == 2

\* The relay operations of Spec.
RelayIds == {"r1"}

(***************************************************************************)
(* HTTP values                                                             *)
(***************************************************************************)
Methods == {"GET", "HEAD"}

Endpoints == {"stream", "segment"}

UpstreamStatuses == {200, 206, 400, 404, 416, 500}

\* Header items are <<name, value>> pairs; a header map holds one item per
\* (case-insensitive) name, as request.headers / upstream_response.headers do.
ClientHeaderItems ==
    { <<"range", "bytes=0-99">>, <<"user-agent", "player">> }

UpstreamHeaderItems ==
    { <<"Transfer-Encoding", "chunked">>, <<"transfer-encoding", "chunked">>,
      <<"TRANSFER-ENCODING", "chunked">>,
      <<"Accept-Ranges", "bytes">>, <<"Accept-Ranges", "none">>,
      <<"Content-Range", "bytes 0-99/1000">> }

\* str.lower() on the header names and values that occur.
Lower(s) ==
    CASE s = "Transfer-Encoding" -> "transfer-encoding"
      [] s = "TRANSFER-ENCODING" -> "transfer-encoding"
      [] s = "Accept-Ranges"     -> "accept-ranges"
      [] s = "Content-Range"     -> "content-range"
      [] OTHER                   -> s

IsHeaderMap(hs) ==
    \A a \in hs : \A b \in hs : Lower(a[1]) = Lower(b[1]) => a = b

ClientHeaderMaps == { hs \in SUBSET ClientHeaderItems : IsHeaderMap(hs) }

UpstreamHeaderMaps == { hs \in SUBSET UpstreamHeaderItems : IsHeaderMap(hs) }

\* The upstream body: chunk i of n is the number i.
Body(n) == [i \in 1..n |-> i]

(***************************************************************************)
(* The relay handlers                                                      *)
(***************************************************************************)
\* headers = {key: value for key, value in request.headers.items()}
RequestHeaders_DropRange(items) == { h \in items : h[1] # "range" }

RequestHeaders(items) == { h \in items : TRUE }

\* the statuses on which each endpoint raises HTTPException
StreamAbortStatuses_Only404 == {404}

StreamAbortStatuses == {400, 404, 416}

SegmentAbortStatuses == {404}

\* {k: v for k, v in upstream_response.headers.items()
\*       if k.lower() != "transfer-encoding"}
ResponseHeaders_CaseSensitive(items) ==
    { h \in items : h[1] # "transfer-encoding" }

ResponseHeaders(items) ==
    { h \in items : Lower(h[1]) # "transfer-encoding" }

\* The upstream connection is open from the response's arrival to its close.
ConnOpen(s) == s.opened /\ ~s.is_closed

\* Leaving the two `async with` blocks (by return or by raise) closes the
\* upstream response and the client that owns its connection.
ExitAsyncWith_Leak(s) == s

ExitAsyncWith(s) == [s EXCEPT !.is_closed = TRUE]

\* What the exception handler sends for a raised HTTPException: a complete
\* JSON response of its own, with the given status.
HTTPExceptionHeaders == { <<"content-type", "application/json">> }

IdleRelay ==
    [ pc |-> "idle",
      endpoint |-> "none", method |-> "none", headers |-> {},
      up_method |-> "none", up_headers |-> {}, up_requests |-> 0,
      opened |-> FALSE, is_closed |-> FALSE,
      status_code |-> 0, up_resp_headers |-> {}, body_len |-> 0,
      kind |-> "none", resp_status |-> 0, resp_headers |-> {},
      client_status |-> 0, client_headers |-> {}, client_body |-> <<>>,
      num_read |-> 0, read_attempts |-> 0, read_after_close |-> FALSE,
      connected |-> TRUE, observed |-> FALSE, outcome |-> "none" ]

\* The handler up to the request it sends upstream: it copies the client's
\* headers and opens client.stream(request.method, url, headers=headers).
StartRequest_SharedHeaders(r) ==
    /\ relay[r].pc = "idle"
    /\ \E e \in Endpoints, m \in Methods, hs \in ClientHeaderMaps :
         relay' = [q \in DOMAIN relay |->
                     IF q = r
                     THEN [relay[q] EXCEPT !.pc = "awaiting",
                                           !.endpoint = e,
                                           !.method = m,
                                           !.headers = hs,
                                           !.up_method = m,
                                           !.up_headers = RequestHeaders(hs),
                                           !.up_requests = @ + 1]
                     ELSE IF relay[q].pc = "awaiting"
                     THEN [relay[q] EXCEPT !.up_headers = RequestHeaders(hs)]
                     ELSE relay[q]]
    /\ UNCHANGED ext

StartRequest(r) ==
    /\ relay[r].pc = "idle"
    /\ \E e \in Endpoints, m \in Methods, hs \in ClientHeaderMaps :
         relay' = [relay EXCEPT ![r] =
                     [@ EXCEPT !.pc = "awaiting",
                               !.endpoint = e,
                               !.method = m,
                               !.headers = hs,
                               !.up_method = m,
                               !.up_headers = RequestHeaders(hs),
                               !.up_requests = @ + 1]]
    /\ UNCHANGED ext

\* client.stream(...) raises (no connection, no response): nothing catches
\* it in the handler, and the client is answered 500.
ConnectFails(r) ==
    /\ relay[r].pc = "awaiting"
    /\ relay' = [relay EXCEPT ![r] =
                   [@ EXCEPT !.pc = "done",
                             !.kind = "ServerError",
                             !.client_status = 500,
                             !.outcome = "connect_error"]]
    /\ UNCHANGED ext

\* proxy_stream_endpoint from the upstream response to its raise or return;
\* either way both `async with` blocks are left.
proxy_stream_endpoint(s) ==
    IF s.status_code \in StreamAbortStatuses
    THEN [ExitAsyncWith(s) EXCEPT
             !.pc = "done",
             !.kind = "HTTPException",
             !.client_status = s.status_code,
             !.client_headers = HTTPExceptionHeaders,
             !.outcome = "aborted"]
    ELSE [ExitAsyncWith(s) EXCEPT
             !.pc = "respond",
             !.kind = "StreamingResponse",
             !.resp_status = s.status_code,
             !.resp_headers = ResponseHeaders(s.up_resp_headers)]

\* segment_endpoint likewise: only 404 raises, and the Accept-Ranges test is
\* commented out.
segment_endpoint(s) ==
    IF s.status_code \in SegmentAbortStatuses
    THEN [ExitAsyncWith(s) EXCEPT
             !.pc = "done",
             !.kind = "HTTPException",
             !.client_status = 404,
             !.client_headers = HTTPExceptionHeaders,
             !.outcome = "aborted"]
    ELSE [ExitAsyncWith(s) EXCEPT
             !.pc = "respond",
             !.kind = "StreamingResponse",
             !.resp_status = s.status_code,
             !.resp_headers = ResponseHeaders(s.up_resp_headers)]

\* The upstream response's status and headers arrive (a HEAD response has no
\* body), and the handler runs on to its raise or its return.
UpstreamResponds(r) ==
    /\ relay[r].pc = "awaiting"
    /\ \E st \in UpstreamStatuses, hs \in UpstreamHeaderMaps, n \in 0..MaxChunks :
         /\ relay[r].method = "HEAD" => n = 0
         /\ LET upstream_response ==
                    [relay[r] EXCEPT !.opened = TRUE,
                                     !.status_code = st,
                                     !.up_resp_headers = hs,
                                     !.body_len = n]
            IN  relay' = [relay EXCEPT ![r] =
                    IF upstream_response.endpoint = "stream"
                    THEN proxy_stream_endpoint(upstream_response)
                    ELSE segment_endpoint(upstream_response)]
    /\ UNCHANGED ext

\* The returned StreamingResponse starts: its status and headers go to the
\* client.
SendStart(r) ==
    /\ relay[r].pc = "respond"
    /\ relay' = [relay EXCEPT ![r] =
                   [@ EXCEPT !.pc = "streaming",
                             !.client_status = relay[r].resp_status,
                             !.client_headers = relay[r].resp_headers]]
    /\ UNCHANGED ext

\* One step of the body iterator upstream_response.aiter_raw(): on a closed
\* response it raises StreamClosed; on an open one it reads the next chunk
\* and passes it on, and closes the response after the last.
NextChunk(r) ==
    /\ relay[r].pc = "streaming"
    /\ LET s == relay[r] IN
       relay' = [relay EXCEPT ![r] =
          IF s.is_closed
          THEN [s EXCEPT !.pc = "done",
                         !.read_attempts = @ + 1,
                         !.read_after_close = TRUE,
                         !.outcome = "stream_error"]
          ELSE IF s.num_read < s.body_len
          THEN [s EXCEPT !.read_attempts = @ + 1,
                         !.num_read = @ + 1,
                         !.client_body = Append(@, Body(s.body_len)[s.num_read + 1])]
          ELSE [s EXCEPT !.pc = "done",
                         !.is_closed = TRUE,
                         !.outcome = "completed"]]
    /\ UNCHANGED ext

\* The client goes away while its request is being served.
ClientDisconnect(r) ==
    /\ relay[r].pc \in {"awaiting", "respond", "streaming"}
    /\ relay[r].connected
    /\ relay' = [relay EXCEPT ![r] = [@ EXCEPT !.connected = FALSE]]
    /\ UNCHANGED ext

\* The StreamingResponse sees the disconnect and cancels its body task.
CancelOnDisconnect(r) ==
    /\ relay[r].pc \in {"respond", "streaming"}
    /\ ~relay[r].connected
    /\ relay' = [relay EXCEPT ![r] =
                   [@ EXCEPT !.pc = "done",
                             !.observed = TRUE,
                             !.outcome = "cancelled"]]
    /\ UNCHANGED ext

(***************************************************************************)
(* Text.  A string is the sequence of its tokens: separators ("://", "/",  *)
(* ".", "?", "&", "=") are tokens of their own, so that split, urlparse    *)
(* and the f-strings work on it as they do on characters.                  *)
(***************************************************************************)
\* str.find: the least index at which sep occurs in s, 0 when it does not
RECURSIVE FindFrom(_, _, _)
FindFrom(s, sep, i) ==
    IF i + Len(sep) - 1 > Len(s) THEN 0
    ELSE IF SubSeq(s, i, i + Len(sep) - 1) = sep THEN i
    ELSE FindFrom(s, sep, i + 1)

Find(s, sep) == FindFrom(s, sep, 1)

\* str.split(sep): the pieces of s between the occurrences of sep
RECURSIVE Split(_, _)
Split(s, sep) ==
    LET k == Find(s, sep) IN
    IF k = 0 THEN << s >>
    ELSE << SubSeq(s, 1, k - 1) >> \o Split(SubSeq(s, k + Len(sep), Len(s)), sep)

(***************************************************************************)
(* The extractor's inputs: page URLs and what the upstream site answers    *)
(***************************************************************************)
PageUrls ==
    { << "https", "://", "streamingcommunity", ".", "to", "/", "watch", "/", "123" >>,
      << "https", "://", "streamingcommunity", ".", "computer", "/", "watch", "/", "456" >>,
      << "https", "://", "www", ".", "streamingcommunity", ".", "to", "/", "watch", "/", "123" >>,
      << "https", "://", "localhost", "/", "watch", "/", "123" >>,
      << "streamingcommunity", ".", "to", "/", "watch", "/", "123" >> }

Versions == {"42", "43"}

\* The data-page attribute of <div id="app">, as json.loads sees it.
DataPages ==
    { [json |-> "absent", keys |-> {}, version |-> "none"],
      [json |-> "malformed", keys |-> {}, version |-> "none"],
      [json |-> "array", keys |-> {}, version |-> "none"],
      [json |-> "object", keys |-> {"props"}, version |-> "none"] }
    \cup { [json |-> "object", keys |-> {"props", "version"}, version |-> v] : v \in Versions }

NoDataPage == [json |-> "absent", keys |-> {}, version |-> "none"]

\* The bootstrap response: a status and a page with or without the container.
BootstrapResponses ==
    { [status_code |-> 404, app_div |-> FALSE, data_page |-> NoDataPage],
      [status_code |-> 200, app_div |-> FALSE, data_page |-> NoDataPage] }
    \cup { [status_code |-> 200, app_div |-> TRUE, data_page |-> d] : d \in DataPages }

EmbedBase == << "https", "://", "vx", ".", "example", "/", "embed", "/", "999" >>

\* The src of the page's first iframe.
EmbedUrls ==
    { EmbedBase,
      EmbedBase \o << "?", "canPlayFHD", "=", "1" >>,
      EmbedBase \o << "?", "b", "=", "1" >>,
      EmbedBase \o << "?", "b", "=", "1", "&", "canPlayFHD", "=", "1" >>,
      EmbedBase \o << "?", "canPlayFHD", "=" >>,
      EmbedBase \o << "?", "b" >>,
      EmbedBase \o << "/", "extra", "?", "b", "=", "1" >>,
      << "https", "://", "vx", ".", "example", "/", "player", "/", "999" >> }

NoIframe == << >>

\* The page response: its status is not looked at; it has an iframe or none.
PageResponses ==
    { [status_code |-> st, has_iframe |-> FALSE, src |-> NoIframe] : st \in {200, 404} }
    \cup { [status_code |-> st, has_iframe |-> TRUE, src |-> u] :
              st \in {200, 404}, u \in EmbedUrls }

\* The embed response: <body>, its first <script>, and what the two patterns
\* 'token':\s*'(\w+)' and 'expires':\s*'(\d+)' find in the script's text.
Scripts ==
    { [token |-> t, expires |-> e] : t \in {"none", "TOK"}, e \in {"none", "1700000000"} }

NoScript == [token |-> "none", expires |-> "none"]

EmbedResponses ==
    { [status_code |-> 403, has_body |-> FALSE, has_script |-> FALSE, script |-> NoScript],
      [status_code |-> 200, has_body |-> FALSE, has_script |-> FALSE, script |-> NoScript],
      [status_code |-> 200, has_body |-> TRUE, has_script |-> FALSE, script |-> NoScript] }
    \cup { [status_code |-> 200, has_body |-> TRUE, has_script |-> TRUE, script |-> sc] :
              sc \in Scripts }

(***************************************************************************)
(* VixCloudExtractor                                                       *)
(***************************************************************************)
\* Extractions one extractor instance serves, one after the other.
MaxCalls == 2

\* What a step of the code comes to: a value, or a raised exception.
Return(v) == [raises |-> "none", value |-> v]

Raise(e) == [raises |-> e, value |-> << >>]

\* self._make_request(url, headers=...): one GET, recorded as issued.
\* Header values are token sequences.
_make_request(fetches, url, headers) ==
    Append(fetches, [url |-> url, headers |-> headers])

\* dict[key] = value on a header map
SetItem(map, key, value) ==
    { h \in map : h[1] # key } \cup { << key, value >> }

\* self.base_headers of a new extractor
BaseHeaders == { << "user-agent", << "Mozilla/5.0" >> >> }

\* self.mediaflow_endpoint
MediaflowEndpoint == "hls_manifest_proxy"

\* The dict a returned request_headers refers to: extract returns
\* self.base_headers itself, not a copy.
HeadersOf(request_headers) ==
    IF request_headers = "self.base_headers" THEN ext.base_headers ELSE {}

\* domain = url.split("://")[1].split("/")[0].split(".")[1]
Domain_FirstLabel(url) ==
    LET parts == Split(url, << "://" >>) IN
    IF Len(parts) < 2 THEN Raise("IndexError")
    ELSE LET labels == Split(Split(parts[2], << "/" >>)[1], << "." >>) IN
         IF Len(labels) < 2 THEN Raise("IndexError")
         ELSE Return(labels[1])

Domain(url) ==
    LET parts == Split(url, << "://" >>) IN
    IF Len(parts) < 2 THEN Raise("IndexError")
    ELSE LET labels == Split(Split(parts[2], << "/" >>)[1], << "." >>) IN
         IF Len(labels) < 2 THEN Raise("IndexError")
         ELSE Return(labels[2])

\* version(): the URL and headers of the bootstrap request
VersionUrl(domain) ==
    << "https", "://", "streamingcommunity", "." >> \o domain
        \o << "/", "richiedi-un-titolo" >>

VersionHeaders(domain) ==
    { << "Referer", << "https", "://", "streamingcommunity", "." >> \o domain \o << "/" >> >>,
      << "Origin", << "https", "://", "streamingcommunity", "." >> \o domain >> }

\* version(), from the bootstrap response on.  The BeautifulSoup object is
\* true even when nothing matched, so `if soup:` always takes the branch;
\* find() is then None and .get raises AttributeError, which is caught, as
\* are JSONDecodeError and KeyError.  json.loads(None) and indexing a JSON
\* array by "version" raise TypeError, which is not.
version_ReturnsNoneWithoutContainer(response) ==
    IF response.status_code # 200 THEN Raise("ExtractorError")
    ELSE IF ~response.app_div THEN Return("None")
    ELSE IF response.data_page.json = "absent" THEN Raise("TypeError")
    ELSE IF response.data_page.json = "malformed" THEN Raise("ExtractorError")
    ELSE IF response.data_page.json = "array" THEN Raise("TypeError")
    ELSE IF "version" \notin response.data_page.keys THEN Raise("ExtractorError")
    ELSE Return(response.data_page.version)

version(response) ==
    IF response.status_code # 200 THEN Raise("ExtractorError")
    ELSE IF ~response.app_div THEN Raise("ExtractorError")
    ELSE IF response.data_page.json = "absent" THEN Raise("TypeError")
    ELSE IF response.data_page.json = "malformed" THEN Raise("ExtractorError")
    ELSE IF response.data_page.json = "array" THEN Raise("TypeError")
    ELSE IF "version" \notin response.data_page.keys THEN Raise("ExtractorError")
    ELSE Return(response.data_page.version)

\* headers={"x-inertia": "true", "x-inertia-version": version}
InertiaHeaders_Cached(v) ==
    { << "x-inertia", << "true" >> >>, << "x-inertia-version", << "42" >> >> }

InertiaHeaders(v) ==
    { << "x-inertia", << "true" >> >>, << "x-inertia-version", << v >> >> }

\* urlparse(iframe).query: what follows the first "?"
Query(iframe) ==
    LET k == Find(iframe, << "?" >>) IN
    IF k = 0 THEN << >> ELSE SubSeq(iframe, k + 1, Len(iframe))

\* parse_qs(query): the names that come with "=" and a non-empty value
\* (blank values are not kept)
parse_qs(query) ==
    LET pairs == Split(query, << "&" >>) IN
    { SubSeq(pairs[i], 1, Find(pairs[i], << "=" >>) - 1) :
        i \in { j \in 1..Len(pairs) :
                  LET k == Find(pairs[j], << "=" >>) IN
                  k > 0 /\ k < Len(pairs[j]) } }

\* soup.find("iframe").get("src")
Iframe(response) ==
    IF ~response.has_iframe THEN Raise("AttributeError")
    ELSE Return(response.src)

\* extract(), from the embed response to its return or raise
Compose(iframe, query_params, response) ==
    IF response.status_code # 200 THEN Raise("ExtractorError")
    ELSE IF ~response.has_body \/ ~response.has_script THEN Raise("AttributeError")
    ELSE IF response.script.token = "none" THEN Raise("AttributeError")
    ELSE IF response.script.expires = "none" THEN Raise("AttributeError")
    ELSE IF Len(Split(iframe, << "/", "embed", "/" >>)) < 2 THEN Raise("IndexError")
    ELSE IF Len(Split(iframe, << "://" >>)) < 2 THEN Raise("IndexError")
    ELSE
      LET vixid == Split(Split(iframe, << "/", "embed", "/" >>)[2], << "?" >>)[1]
          base_url == Split(Split(iframe, << "://" >>)[2], << "/" >>)[1]
          final_url == << "https", "://" >> \o base_url \o << "/", "playlist", "/" >>
                          \o vixid
                          \o << ".m3u8", "?", "token", "=", response.script.token,
                                "&", "expires", "=", response.script.expires >>
          with_h == IF << "canPlayFHD" >> \in query_params
                    THEN final_url \o << "&", "h", "=", "1" >> ELSE final_url
          with_b == IF << "b" >> \in query_params
                    THEN with_h \o << "&", "b", "=", "1" >> ELSE with_h
      IN Return(with_b)

NoResponse == [status_code |-> 0]

NoResult ==
    [destination_url |-> << >>, request_headers |-> "none",
     mediaflow_endpoint |-> "none"]

IdleExt ==
    [ pc |-> "idle", calls |-> 0, url |-> << >>, domain |-> << >>,
      version |-> "none", iframe |-> << >>, query_params |-> {},
      bootstrap |-> NoResponse, page |-> NoResponse, embed |-> NoResponse,
      fetches |-> << >>, outcome |-> "none", result |-> NoResult,
      base_headers |-> BaseHeaders, headers_before |-> BaseHeaders,
      history |-> << >> ]

\* The call is over: it raised e.
Raised(s, e) == [s EXCEPT !.pc = "done", !.outcome = e]

\* extract(url) is called: the domain is derived and version() sends the
\* bootstrap request.
StartExtract ==
    /\ ext.pc \in {"idle", "done"}
    /\ ext.calls < MaxCalls
    /\ \E url \in PageUrls :
         LET s == [IdleExt EXCEPT
                      !.calls = ext.calls + 1,
                      !.url = url,
                      !.base_headers = ext.base_headers,
                      !.headers_before = ext.base_headers,
                      !.history = IF ext.calls = 0 THEN << >>
                                  ELSE Append(ext.history,
                                         [url |-> ext.url, outcome |-> ext.outcome,
                                          request_headers |->
                                              ext.result.request_headers])]
             domain == Domain(url)
         IN  ext' = IF domain.raises # "none" THEN Raised(s, domain.raises)
                    ELSE [s EXCEPT
                            !.pc = "version",
                            !.domain = domain.value,
                            !.fetches = _make_request(s.fetches,
                                            VersionUrl(domain.value),
                                            VersionHeaders(domain.value))]
    /\ UNCHANGED relay

\* The bootstrap response arrives: version() ends, and extract sends the
\* page request with the inertia headers.
VersionResponds ==
    /\ ext.pc = "version"
    /\ \E response \in BootstrapResponses :
         LET s == [ext EXCEPT !.bootstrap = response]
             v == version(response)
         IN  ext' = IF v.raises # "none" THEN Raised(s, v.raises)
                    ELSE [s EXCEPT
                            !.pc = "page",
                            !.version = v.value,
                            !.fetches = _make_request(s.fetches, s.url,
                                            InertiaHeaders(v.value))]
    /\ UNCHANGED relay

\* The page response arrives: the iframe's src is taken, its query parsed,
\* and the embed request sent.
PageResponds ==
    /\ ext.pc = "page"
    /\ \E response \in PageResponses :
         LET s == [ext EXCEPT !.page = response]
             iframe == Iframe(response)
         IN  ext' = IF iframe.raises # "none" THEN Raised(s, iframe.raises)
                    ELSE [s EXCEPT
                            !.pc = "embed",
                            !.iframe = iframe.value,
                            !.query_params = parse_qs(Query(iframe.value)),
                            !.fetches = _make_request(s.fetches, iframe.value,
                                            InertiaHeaders(s.version))]
    /\ UNCHANGED relay

\* The embed response arrives: the rest of extract, to its return or raise.
EmbedResponds_RefererFirst ==
    /\ ext.pc = "embed"
    /\ \E response \in EmbedResponses :
         LET s == [ext EXCEPT !.embed = response,
                              !.base_headers = SetItem(@, "referer", ext.url)]
             final_url == Compose(s.iframe, s.query_params, response)
         IN  ext' = IF final_url.raises # "none" THEN Raised(s, final_url.raises)
                    ELSE [s EXCEPT
                            !.pc = "done",
                            !.outcome = "returned",
                            !.result = [destination_url |-> final_url.value,
                                        request_headers |-> "self.base_headers",
                                        mediaflow_endpoint |-> MediaflowEndpoint]]
    /\ UNCHANGED relay

EmbedResponds ==
    /\ ext.pc = "embed"
    /\ \E response \in EmbedResponses :
         LET s == [ext EXCEPT !.embed = response]
             final_url == Compose(s.iframe, s.query_params, response)
         IN  ext' = IF final_url.raises # "none" THEN Raised(s, final_url.raises)
                    ELSE [s EXCEPT
                            !.pc = "done",
                            !.outcome = "returned",
                            !.base_headers = SetItem(@, "referer", s.url),
                            !.result = [destination_url |-> final_url.value,
                                        request_headers |-> "self.base_headers",
                                        mediaflow_endpoint |-> MediaflowEndpoint]]
    /\ UNCHANGED relay

(***************************************************************************)
(* Specifications                                                          *)
(***************************************************************************)
Init ==
    /\ relay = [r \in RelayIds |-> IdleRelay]
    /\ ext = IdleExt

Next ==
    \E r \in RelayIds :
        \/ StartRequest(r)
        \/ ConnectFails(r)
        \/ UpstreamResponds(r)
        \/ SendStart(r)
        \/ NextChunk(r)
        \/ ClientDisconnect(r)
        \/ CancelOnDisconnect(r)

Spec == Init /\ [][Next]_vars

NextExtract ==
    \/ StartExtract
    \/ VersionResponds
    \/ PageResponds
    \/ EmbedResponds

SpecExtract == Init /\ [][NextExtract]_vars

\* Two relay operations in flight at once, on a smaller choice of requests
\* and upstream responses.
ConcurrentRelayIds == {"r1", "r2"}

SmallInputs(s) ==
    /\ s.method \in {"none", "GET"}
    /\ s.headers \subseteq { <<"range", "bytes=0-99">> }
    /\ s.status_code \in {0, 200, 404, 416}
    /\ s.up_resp_headers = {}
    /\ s.body_len <= 1

InitConcurrent ==
    /\ relay = [r \in ConcurrentRelayIds |-> IdleRelay]
    /\ ext = IdleExt

NextConcurrent ==
    \E r \in ConcurrentRelayIds :
        \/ StartRequest(r) /\ SmallInputs(relay'[r])
        \/ ConnectFails(r) /\ SmallInputs(relay'[r])
        \/ UpstreamResponds(r) /\ SmallInputs(relay'[r])
        \/ SendStart(r) /\ SmallInputs(relay'[r])
        \/ NextChunk(r) /\ SmallInputs(relay'[r])
        \/ ClientDisconnect(r) /\ SmallInputs(relay'[r])
        \/ CancelOnDisconnect(r) /\ SmallInputs(relay'[r])

SpecConcurrent == InitConcurrent /\ [][NextConcurrent]_vars

(***************************************************************************)
(* Properties of the relay (checked under Spec)                            *)
(***************************************************************************)
ErrorStatuses == {400, 404, 416}

\* The relay has returned a streaming response and the client stayed to the end.
StreamedToEnd(s) ==
    s.pc = "done" /\ s.kind = "StreamingResponse" /\ s.connected

\* C1: for every upstream response that is not short-circuited, the client
\* receives every upstream body chunk, in order and unmodified, and no body
\* read is attempted once the upstream response has been closed.
C1_BodyStreamedWhileOpen ==
    \A r \in RelayIds :
        StreamedToEnd(relay[r]) =>
            /\ relay[r].client_body = Body(relay[r].body_len)
            /\ ~relay[r].read_after_close

\* The relay aborted: the handler raised, the client got a response with
\* status st, and the upstream body was neither read nor passed on.
AbortedWith(s, st) ==
    /\ s.pc = "done"
    /\ s.kind = "HTTPException"
    /\ s.client_status = st
    /\ s.read_attempts = 0
    /\ s.num_read = 0
    /\ s.client_body = <<>>

\* C2: on /stream an upstream 400, 404 or 416 aborts the relay at once: the
\* client receives exactly that status, no upstream body is read or forwarded
\* and no second upstream request is issued.
C2_StreamAbortsOnErrorStatus ==
    \A r \in RelayIds :
        (relay[r].endpoint = "stream" /\ relay[r].status_code \in ErrorStatuses) =>
            /\ AbortedWith(relay[r], relay[r].status_code)
            /\ relay[r].up_requests = 1

W2_StreamAborted416 ==
    \E r \in RelayIds :
        /\ relay[r].endpoint = "stream"
        /\ relay[r].status_code = 416
        /\ relay[r].body_len > 0
        /\ relay[r].client_status = 416
        /\ relay[r].pc = "done"

AcceptsRanges(items) ==
    \E h \in items : Lower(h[1]) = "accept-ranges" /\ Lower(h[2]) # "none"

\* C4: on the segment relay an upstream response without Accept-Ranges, or
\* with Accept-Ranges: none, is answered 416 with no body byte read from
\* upstream or streamed to the client.
C4_SegmentRequiresAcceptRanges ==
    \A r \in RelayIds :
        ( /\ relay[r].endpoint = "segment"
          /\ relay[r].pc = "done"
          /\ relay[r].opened
          /\ relay[r].connected
          /\ relay[r].status_code \notin ErrorStatuses
          /\ ~AcceptsRanges(relay[r].up_resp_headers) ) =>
            /\ relay[r].client_status = 416
            /\ relay[r].num_read = 0
            /\ relay[r].client_body = <<>>

\* C5: in every final state of a relay operation the upstream connection has
\* been released, whichever way the operation ended.
C5_ConnectionReleased ==
    \A r \in RelayIds : relay[r].pc = "done" => ~ConnOpen(relay[r])

W5_ReleasedAfterDisconnect ==
    \E r \in RelayIds :
        /\ relay[r].pc = "done"
        /\ relay[r].outcome = "cancelled"
        /\ relay[r].opened
        /\ relay[r].client_status # 0
        /\ relay[r].is_closed

\* C6: once the relay has observed the client's disconnect, its upstream
\* connection is closed and the relay has stopped: it reads no further chunk.
C6_DisconnectStopsUpstream ==
    \A r \in RelayIds :
        relay[r].observed => (~ConnOpen(relay[r]) /\ relay[r].pc = "done")

W6_DisconnectWhileStreaming ==
    \E r \in RelayIds :
        /\ relay[r].observed
        /\ relay[r].kind = "StreamingResponse"
        /\ relay[r].client_status # 0
        /\ relay[r].body_len > 0

\* C7: no response of the relay carries a Transfer-Encoding header, in any
\* casing, whatever the upstream status and headers.
C7_NoTransferEncoding ==
    \A r \in RelayIds :
        \A h \in relay[r].client_headers \cup relay[r].resp_headers :
            Lower(h[1]) # "transfer-encoding"

W7_UpstreamSentTransferEncoding ==
    \E r \in RelayIds :
        /\ <<"Transfer-Encoding", "chunked">> \in relay[r].up_resp_headers
        /\ relay[r].kind = "StreamingResponse"
        /\ relay[r].client_status = relay[r].status_code
        /\ relay[r].client_headers # {}

C9_ReturnsResultOrExtractorError ==
    ext.pc = "done" =>
        \/ /\ ext.outcome = "returned"
           /\ ext.result.destination_url # << >>
           /\ ext.result.request_headers # "none"
           /\ ext.result.mediaflow_endpoint # "none"
        \/ /\ ext.outcome = "ExtractorError"
           /\ ext.result = NoResult

\* The bootstrap response is a 200 whose page lacks the container, or whose
\* data-page is malformed JSON, or a JSON object without a version field.
VersionUnparsable(response) ==
    /\ response.status_code = 200
    /\ \/ ~response.app_div
       \/ response.data_page.json = "malformed"
       \/ /\ response.data_page.json = "object"
          /\ "version" \notin response.data_page.keys

\* C10: a 200 bootstrap response whose container is missing, whose JSON is
\* malformed or whose JSON has no version field makes the call fail with
\* ExtractorError before any page fetch; no fetch after the bootstrap is
\* ever issued without a version.
C10_VersionParseFailsClosed ==
    /\ VersionUnparsable(ext.bootstrap) =>
          /\ ext.pc = "done"
          /\ ext.outcome = "ExtractorError"
          /\ Len(ext.fetches) = 1
    /\ Len(ext.fetches) >= 2 => ext.version \in Versions

W10_ObjectWithoutVersion ==
    /\ ext.bootstrap.status_code = 200
    /\ ext.bootstrap.app_div
    /\ ext.bootstrap.data_page.json = "object"
    /\ "version" \notin ext.bootstrap.data_page.keys
    /\ ext.outcome = "ExtractorError"
    /\ Len(ext.fetches) = 1

\* C11: a non-200 response to the bootstrap, page or embed fetch makes the
\* call fail with ExtractorError, and no fetch is issued after the one that
\* was answered so.
C11_Non200FailsClosed ==
    /\ ext.bootstrap.status_code \notin {0, 200} =>
          ext.pc = "done" /\ ext.outcome = "ExtractorError" /\ Len(ext.fetches) = 1
    /\ ext.page.status_code \notin {0, 200} =>
          ext.pc = "done" /\ ext.outcome = "ExtractorError" /\ Len(ext.fetches) = 2
    /\ ext.embed.status_code \notin {0, 200} =>
          ext.pc = "done" /\ ext.outcome = "ExtractorError" /\ Len(ext.fetches) = 3

\* s holds part somewhere
Contains(s, part) ==
    \E i \in 1..Len(s) : i + Len(part) - 1 <= Len(s) /\ SubSeq(s, i, i + Len(part) - 1) = part

\* The key is written in the URL's query string: after the "?", at the start
\* of a parameter, whether or not "=" and a value follow it.
KeyAppears(url, key) ==
    \E i \in 1..Len(url) :
        /\ url[i] = key
        /\ i > 1
        /\ url[i - 1] \in {"?", "&"}
        /\ \E q \in 1..(i - 1) : url[q] = "?"
        /\ i < Len(url) => url[i + 1] \in {"=", "&"}

\* C12: a returned destination_url contains "&h=1" exactly when the key
\* canPlayFHD appears in the embed URL's query string, and "&b=1" exactly
\* when the key b appears, whatever their values (empty, or no "=" at all).
C12_FlagsFollowKeyPresence ==
    ext.outcome = "returned" =>
        /\ Contains(ext.result.destination_url, << "&", "h", "=", "1" >>)
              <=> KeyAppears(ext.iframe, "canPlayFHD")
        /\ Contains(ext.result.destination_url, << "&", "b", "=", "1" >>)
              <=> KeyAppears(ext.iframe, "b")

\* The position of the "://" token and the token after the host.
SchemeEnd(url) == CHOOSE i \in 1..Len(url) : url[i] = "://"

HostEnd(url) ==
    LET after == { i \in (SchemeEnd(url) + 1)..Len(url) : url[i] \in {"/", "?"} }
    IN  IF after = {} THEN Len(url) + 1
        ELSE CHOOSE i \in after : \A j \in after : i <= j

\* The embed URL's host, and the one path segment right after /embed/.
MediaHost(url) == SubSeq(url, SchemeEnd(url) + 1, HostEnd(url) - 1)

MediaId(url) ==
    LET i == CHOOSE k \in 1..(Len(url) - 3) :
                 /\ url[k] = "/" /\ url[k + 1] = "embed" /\ url[k + 2] = "/"
                 /\ k >= HostEnd(url)
    IN  << url[i + 3] >>

OptionalSuffixes ==
    { << >>, << "&", "h", "=", "1" >>, << "&", "b", "=", "1" >>,
      << "&", "h", "=", "1", "&", "b", "=", "1" >> }

\* C13: a returned destination_url is
\* https://{media_host}/playlist/{id}.m3u8?token={token}&expires={expires}
\* followed by the optional &h=1 and &b=1, with media_host the embed URL's
\* host, id the single path segment right after /embed/, and token and
\* expires the values found in the script.
C13_DestinationUrlShape ==
    ext.outcome = "returned" =>
        \E suffix \in OptionalSuffixes :
            ext.result.destination_url =
                << "https", "://" >> \o MediaHost(ext.iframe)
                   \o << "/", "playlist", "/" >> \o MediaId(ext.iframe)
                   \o << ".m3u8", "?", "token", "=", ext.embed.script.token,
                         "&", "expires", "=", ext.embed.script.expires >>
                   \o suffix

\* The referer a header map holds.
Referer(map) == { h[2] : h \in { x \in map : x[1] = "referer" } }

\* C14: the request_headers a call returned has referer equal to that call's
\* own page URL, and keeps it after later calls on the same extractor.
C14_HeadersPerCall ==
    /\ ext.outcome = "returned" =>
          Referer(HeadersOf(ext.result.request_headers)) = { ext.url }
    /\ \A i \in 1..Len(ext.history) :
          ext.history[i].outcome = "returned" =>
              Referer(HeadersOf(ext.history[i].request_headers)) = { ext.history[i].url }

\* The page URL's host is three labels: sub.domain.tld.
ThreeLabelHost(url) ==
    /\ \E i \in 1..Len(url) : url[i] = "://"
    /\ LET host == MediaHost(url) IN
          Len(host) = 5 /\ host[2] = "." /\ host[4] = "."

\* C15: for a page URL whose host is sub.domain.tld the derived domain is the
\* second host segment, and the bootstrap request, with its Referer and
\* Origin, goes to https://streamingcommunity.{that segment}/.
C15_DomainIsSecondLabel ==
    (ext.pc # "idle" /\ ThreeLabelHost(ext.url)) =>
        LET seg == MediaHost(ext.url)[3] IN
        /\ ext.domain = << seg >>
        /\ Len(ext.fetches) >= 1
        /\ ext.fetches[1].url =
              << "https", "://", "streamingcommunity", ".", seg, "/", "richiedi-un-titolo" >>
        /\ ext.fetches[1].headers =
              { << "Referer", << "https", "://", "streamingcommunity", ".", seg, "/" >> >>,
                << "Origin", << "https", "://", "streamingcommunity", ".", seg >> >> }

W15_SubdomainHost ==
    /\ ext.url = << "https", "://", "www", ".", "streamingcommunity", ".", "to",
                    "/", "watch", "/", "123" >>
    /\ ext.domain = << "streamingcommunity" >>
    /\ Len(ext.fetches) = 1
    /\ ext.pc = "version"

\* The inertia headers carrying this call's own version.
OwnInertiaHeaders ==
    { << "x-inertia", << "true" >> >>,
      << "x-inertia-version", << ext.bootstrap.data_page.version >> >> }

\* C16: within one call the fetches are bootstrap, page, embed, in that
\* order, each at most once and one at a time; the page and embed fetches
\* come only after this call's bootstrap gave a version, and carry
\* x-inertia: true and that version.
C16_FetchOrderAndVersion ==
    /\ Len(ext.fetches) <= 3
    /\ ext.pc = "version" => Len(ext.fetches) = 1
    /\ ext.pc = "page" => Len(ext.fetches) = 2
    /\ ext.pc = "embed" => Len(ext.fetches) = 3
    /\ Len(ext.fetches) >= 1 =>
          /\ ext.fetches[1].url = VersionUrl(ext.domain)
          /\ \A h \in ext.fetches[1].headers : h[1] \notin {"x-inertia", "x-inertia-version"}
    /\ Len(ext.fetches) >= 2 =>
          /\ ext.bootstrap.status_code = 200
          /\ ext.bootstrap.data_page.version \in Versions
          /\ ext.version = ext.bootstrap.data_page.version
          /\ ext.fetches[2].url = ext.url
          /\ ext.fetches[2].headers = OwnInertiaHeaders
    /\ Len(ext.fetches) >= 3 =>
          /\ ext.page.status_code # 0
          /\ ext.fetches[3].url = ext.iframe
          /\ ext.fetches[3].headers = OwnInertiaHeaders

W16_SecondCallOwnVersion ==
    /\ ext.calls = 2
    /\ Len(ext.history) = 1
    /\ ext.history[1].outcome = "returned"
    /\ Len(ext.fetches) = 3
    /\ ext.bootstrap.status_code = 200
    /\ ext.bootstrap.data_page.version = "43"
    /\ ext.pc = "embed"

\* C18: a call that ends in an error leaves base_headers as it was when the
\* call began; referer is written only when the call returns.
C18_FailureLeavesHeaders ==
    ext.outcome # "returned" => ext.base_headers = ext.headers_before

W18_FailedAfterEarlierSuccess ==
    /\ ext.calls = 2
    /\ Len(ext.history) = 1
    /\ ext.history[1].outcome = "returned"
    /\ ext.history[1].url # ext.url
    /\ ext.pc = "done"
    /\ ext.embed.status_code = 200
    /\ ext.outcome = "AttributeError"
    /\ Referer(ext.base_headers) = { ext.history[1].url }

(***************************************************************************)
(* Properties of concurrent relays (checked under SpecConcurrent)          *)
(***************************************************************************)
\* What a relay sent upstream and answered comes from its own request and
\* its own upstream response.
OwnRequestAndResponse(s) ==
    /\ s.up_requests = (IF s.pc = "idle" THEN 0 ELSE 1)
    /\ s.up_method = s.method
    /\ s.up_headers = s.headers
    /\ s.kind = "HTTPException" => s.client_status = s.status_code
    /\ s.kind = "StreamingResponse" => s.resp_status = s.status_code
    /\ s.kind = "ServerError" => ~s.opened

\* C17: every relay operation issues exactly one upstream request on one
\* connection of its own, whatever the upstream answers or however it fails,
\* and a step of one operation changes nothing of any other: what an
\* operation sends and answers is its own, under every interleaving.
C17_OneRequestNoSharedState ==
    [][ /\ \A r \in DOMAIN relay : OwnRequestAndResponse(relay'[r])
        /\ \A r1 \in DOMAIN relay : \A r2 \in DOMAIN relay :
              (r1 # r2 /\ relay'[r1] # relay[r1]) => relay'[r2] = relay[r2] ]_vars

W17_TwoRelaysDone ==
    /\ relay["r1"].pc = "done"
    /\ relay["r2"].pc = "done"
    /\ relay["r1"].outcome = "aborted"
    /\ relay["r2"].outcome = "connect_error"
    /\ relay["r1"].headers # relay["r2"].headers
    /\ relay["r1"].up_requests = 1
    /\ relay["r2"].up_requests = 1

====
